---- MODULE Spec2Model ----
(***************************************************************************)
(* Model of unicode-line-stacker (src/src/lib.rs): a 16-entry table of     *)
(* line-drawing characters indexed by a 4-bit segment mask, and the three  *)
(* public functions stack, char_to_bits and bits_to_char built on it.      *)
(*                                                                         *)
(* Characters are Unicode scalar values (integers).  An Option<T> or a     *)
(* plain return value is a record [kind, val, msg, args]; a panic is the   *)
(* record of kind "Panic" carrying the format string and its arguments.    *)
(***************************************************************************)
EXTENDS Integers, Sequences, FiniteSets

VARIABLES call, args, result

vars == <<call, args, result>>

(* Largest small value handed to bits_to_char. *)
MaxBits == 20

(* Characters outside the table that callers pass in: '@', 'x', the heavy  *)
(* horizontal U+2501, the double horizontal U+2550 and the emoji U+1F600.  *)
OtherChars == {64, 120, 9473, 9552, 128512}

(* ---- return values ---------------------------------------------------- *)

None == [kind |-> "None", val |-> 0, msg |-> "", args |-> <<>>]

Some(v) == [kind |-> "Some", val |-> v, msg |-> "", args |-> <<>>]

Value(v) == [kind |-> "Value", val |-> v, msg |-> "", args |-> <<>>]

Panic(m, fmtArgs) == [kind |-> "Panic", val |-> 0, msg |-> m, args |-> fmtArgs]

NotCalled == [kind |-> "NotCalled", val |-> 0, msg |-> "", args |-> <<>>]

(* ---- the table -------------------------------------------------------- *)

(* The table with U+2514 typed again in place of U+2518 at index 1001. *)
LINE_DRAWING_CHARS_duplicate ==
    << 32, 9589, 9590, 9492, 9591, 9474, 9484, 9500,
       9588, 9492, 9472, 9524, 9488, 9508, 9516, 9532 >>

(* The table with the two right-hand corners (0011 and 0110) exchanged. *)
LINE_DRAWING_CHARS_swapped ==
    << 32, 9589, 9590, 9484, 9591, 9474, 9492, 9500,
       9588, 9496, 9472, 9524, 9488, 9508, 9516, 9532 >>

(* Entry at index m (1-based position m + 1) is the character of mask m. *)
LINE_DRAWING_CHARS ==
    << 32,      \* 0000  ' '
       9589,    \* 0001  U+2575
       9590,    \* 0010  U+2576
       9492,    \* 0011  U+2514
       9591,    \* 0100  U+2577
       9474,    \* 0101  U+2502
       9484,    \* 0110  U+250C
       9500,    \* 0111  U+251C
       9588,    \* 1000  U+2574
       9496,    \* 1001  U+2518
       9472,    \* 1010  U+2500
       9524,    \* 1011  U+2534
       9488,    \* 1100  U+2510
       9508,    \* 1101  U+2524
       9516,    \* 1110  U+252C
       9532 >>  \* 1111  U+253C

(* Indexing the array with a usize: out of range is the bounds-check panic. *)
Index(tbl, i) ==
    IF i < Len(tbl)
    THEN Value(tbl[i + 1])
    ELSE Panic("index out of bounds: the len is {} but the index is {}",
               <<Len(tbl), i>>)

(* ---- char_to_bits ----------------------------------------------------- *)

(* iter().enumerate().find(..): first position from i on whose entry is c. *)
RECURSIVE find(_, _, _)
find(tbl, c, i) ==
    IF i >= Len(tbl) THEN None
    ELSE IF tbl[i + 1] = c THEN Some(i)
    ELSE find(tbl, c, i + 1)

(* The scan started one entry late. *)
char_to_bits_skip_first(c) == find(LINE_DRAWING_CHARS, c, 1)

char_to_bits(c) == find(LINE_DRAWING_CHARS, c, 0)

(* ---- bits_to_char ----------------------------------------------------- *)

(* The range check written with > in place of >=. *)
bits_to_char_off_by_one(bits) ==
    IF bits > 16
    THEN Panic("Bit set must be between 0 and 15 inclusive but got {}", <<bits>>)
    ELSE Index(LINE_DRAWING_CHARS, bits)

bits_to_char(bits) ==
    IF bits >= 16
    THEN Panic("Bit set must be between 0 and 15 inclusive but got {}", <<bits>>)
    ELSE Index(LINE_DRAWING_CHARS, bits)

(* ---- stack ------------------------------------------------------------ *)

(* ^ in place of | *)
RECURSIVE BitXor(_, _)
BitXor(x, y) ==
    IF x = 0 THEN y
    ELSE IF y = 0 THEN x
    ELSE (IF (x % 2) # (y % 2) THEN 1 ELSE 0) + 2 * BitXor(x \div 2, y \div 2)

(* & in place of | *)
RECURSIVE BitAnd(_, _)
BitAnd(x, y) ==
    IF x = 0 \/ y = 0 THEN 0
    ELSE (IF x % 2 = 1 /\ y % 2 = 1 THEN 1 ELSE 0) + 2 * BitAnd(x \div 2, y \div 2)

(* + in place of | *)
BitAdd(x, y) == x + y

(* The | operator on two usize values. *)
RECURSIVE BitOr(_, _)
BitOr(x, y) ==
    IF x = 0 THEN y
    ELSE IF y = 0 THEN x
    ELSE (IF x % 2 = 1 \/ y % 2 = 1 THEN 1 ELSE 0) + 2 * BitOr(x \div 2, y \div 2)

(* Option::unwrap *)
unwrap(o) ==
    IF o.kind = "Some"
    THEN Value(o.val)
    ELSE Panic("called Option::unwrap() on a None value", <<>>)

(* The lookup of a used for both operands of the |. *)
stack_a_twice(a, b) ==
    LET look_for_a == char_to_bits(a)
        look_for_b == char_to_bits(b)
    IN  IF look_for_b.kind = "None" \/ look_for_b.kind = "None"
        THEN None
        ELSE LET ua == unwrap(look_for_a)
             IN  IF ua.kind = "Panic" THEN ua
                 ELSE LET e == Index(LINE_DRAWING_CHARS, BitOr(ua.val, ua.val))
                      IN  IF e.kind = "Panic" THEN e ELSE Some(e.val)

stack(a, b) ==
    LET look_for_a == char_to_bits(a)
        look_for_b == char_to_bits(b)
    IN  IF look_for_b.kind = "None" \/ look_for_b.kind = "None"
        THEN None
        ELSE LET ua == unwrap(look_for_a)
                 ub == unwrap(look_for_b)
             IN  IF ua.kind = "Panic" THEN ua
                 ELSE IF ub.kind = "Panic" THEN ub
                 ELSE LET e == Index(LINE_DRAWING_CHARS, BitOr(ua.val, ub.val))
                      IN  IF e.kind = "Panic" THEN e ELSE Some(e.val)

(* ---- the callers ------------------------------------------------------ *)

TableChars == {LINE_DRAWING_CHARS[i] : i \in 1..Len(LINE_DRAWING_CHARS)}

CharInputs == TableChars \cup OtherChars

(* Values of the u32 parameter of bits_to_char: every small one, and large *)
(* ones up to the largest integer the checker represents (2^31 - 1).       *)
BitsInputs == (0..MaxBits) \cup {255, 256, 65536, 2147483647}

Init ==
    /\ call = "none"
    /\ args = <<>>
    /\ result = NotCalled

CallStack ==
    \E a \in CharInputs, b \in CharInputs :
        /\ call' = "stack"
        /\ args' = <<a, b>>
        /\ result' = stack(a, b)

CallCharToBits ==
    \E c \in CharInputs :
        /\ call' = "char_to_bits"
        /\ args' = <<c>>
        /\ result' = char_to_bits(c)

CallBitsToChar ==
    \E bits \in BitsInputs :
        /\ call' = "bits_to_char"
        /\ args' = <<bits>>
        /\ result' = bits_to_char(bits)

Next == CallStack \/ CallCharToBits \/ CallBitsToChar

Spec == Init /\ [][Next]_vars

(* ---- reference notions used by the properties ------------------------- *)

(* Bit positions of the directions: 0 up, 1 right, 2 down, 3 left. *)
Exp2(k) == IF k = 0 THEN 1 ELSE IF k = 1 THEN 2 ELSE IF k = 2 THEN 4 ELSE 8

(* The directions whose bit is set in mask m. *)
MaskSegments(m) == {k \in 0..3 : (m \div Exp2(k)) % 2 = 1}

(* The directions the glyph of a code point draws, from its Unicode name   *)
(* (BOX DRAWINGS LIGHT UP, ... LIGHT VERTICAL AND HORIZONTAL).             *)
GlyphSegments(c) ==
    CASE c = 32   -> {}
      [] c = 9472 -> {1, 3}          \* U+2500 LIGHT HORIZONTAL
      [] c = 9474 -> {0, 2}          \* U+2502 LIGHT VERTICAL
      [] c = 9484 -> {1, 2}          \* U+250C LIGHT DOWN AND RIGHT
      [] c = 9488 -> {2, 3}          \* U+2510 LIGHT DOWN AND LEFT
      [] c = 9492 -> {0, 1}          \* U+2514 LIGHT UP AND RIGHT
      [] c = 9496 -> {0, 3}          \* U+2518 LIGHT UP AND LEFT
      [] c = 9500 -> {0, 1, 2}       \* U+251C LIGHT VERTICAL AND RIGHT
      [] c = 9508 -> {0, 2, 3}       \* U+2524 LIGHT VERTICAL AND LEFT
      [] c = 9516 -> {1, 2, 3}       \* U+252C LIGHT DOWN AND HORIZONTAL
      [] c = 9524 -> {0, 1, 3}       \* U+2534 LIGHT UP AND HORIZONTAL
      [] c = 9532 -> {0, 1, 2, 3}    \* U+253C LIGHT VERTICAL AND HORIZONTAL
      [] c = 9588 -> {3}             \* U+2574 LIGHT LEFT
      [] c = 9589 -> {0}             \* U+2575 LIGHT UP
      [] c = 9590 -> {1}             \* U+2576 LIGHT RIGHT
      [] c = 9591 -> {2}             \* U+2577 LIGHT DOWN
      [] OTHER    -> {4}

Masks == 0..15

StackOfRecognized ==
    /\ call = "stack"
    /\ args[1] \in TableChars
    /\ args[2] \in TableChars

(* ---- properties ------------------------------------------------------- *)

(* C1: whenever at least one of the two characters given to stack is not   *)
(* a table character, stack returns None.                                  *)
C1_AbsencePropagates ==
    (call = "stack" /\ (args[1] \notin TableChars \/ args[2] \notin TableChars))
        => result = None

(* C2: for recognized a and b, stack returns Some(c) where c is the table  *)
(* entry whose index is the bitwise OR of the indices of a and b, that     *)
(* index lying in 0..15; stack(U+2500, U+2502) and stack(U+250C, U+2534)   *)
(* are both Some(U+253C).                                                  *)
C2_StackIsUnion ==
    StackOfRecognized =>
        /\ result.kind = "Some"
        /\ \E i \in Masks, j \in Masks, k \in Masks :
              /\ LINE_DRAWING_CHARS[i + 1] = args[1]
              /\ LINE_DRAWING_CHARS[j + 1] = args[2]
              /\ MaskSegments(k) = MaskSegments(i) \cup MaskSegments(j)
              /\ result.val = LINE_DRAWING_CHARS[k + 1]
        /\ (args = <<9472, 9474>> => result = Some(9532))
        /\ (args = <<9484, 9524>> => result = Some(9532))

C2_Witness ==
    /\ call = "stack"
    /\ args = <<9484, 9524>>
    /\ result = Some(9532)

(* C3: char_to_bits and stack never panic: each call of either completes   *)
(* with an optional result.                                                *)
C3_NonFatal ==
    call \in {"stack", "char_to_bits"} => result.kind \in {"None", "Some"}

(* C4: bits_to_char panics for every bits >= 16, with the message naming   *)
(* the offending value, and returns a character for every bits in 0..15.   *)
C4_OutOfRangeFatal ==
    call = "bits_to_char" =>
        /\ args[1] >= 16 =>
              /\ result.kind = "Panic"
              /\ result.msg = "Bit set must be between 0 and 15 inclusive but got {}"
              /\ result.args = <<args[1]>>
        /\ args[1] \in Masks => result.kind = "Value"

C4_Witness ==
    /\ call = "bits_to_char"
    /\ args = <<16>>
    /\ result.kind = "Panic"
    /\ result.args = <<16>>

(* C5: character <-> mask is a bijection on the table: the character       *)
(* bits_to_char returns for m converts back to Some(m), the mask           *)
(* char_to_bits returns for c converts back to c, and the table holds 16   *)
(* distinct characters.                                                    *)
C5_Bijection ==
    /\ (call = "bits_to_char" /\ result.kind = "Value")
          => char_to_bits(result.val) = Some(args[1])
    /\ (call = "char_to_bits" /\ result.kind = "Some")
          => bits_to_char(result.val) = Value(args[1])
    /\ Cardinality(TableChars) = 16

C5_Witness ==
    /\ call = "bits_to_char"
    /\ args = <<9>>
    /\ result = Value(9496)

(* C6: char_to_bits returns None exactly for the characters outside the    *)
(* table, and otherwise Some(mask) with the mask in 0..15; 'x' and '@'     *)
(* give None and U+252C gives Some(14).                                    *)
C6_AbsentIffUnrecognized ==
    call = "char_to_bits" =>
        /\ result.kind \in {"None", "Some"}
        /\ result.kind = "None" <=> args[1] \notin TableChars
        /\ result.kind = "Some" => result.val \in Masks
        /\ args[1] \in {120, 64} => result = None
        /\ args[1] = 9516 => result = Some(14)

C6_Witness ==
    /\ call = "char_to_bits"
    /\ args = <<120>>
    /\ result = None

(* C7: the space character is the identity of stack on recognized          *)
(* characters, on either side.                                             *)
C7_SpaceIdentity ==
    StackOfRecognized =>
        /\ args[1] = 32 => result = Some(args[2])
        /\ args[2] = 32 => result = Some(args[1])

C7_Witness ==
    /\ call = "stack"
    /\ args = <<32, 9492>>
    /\ result = Some(9492)

(* C8: stack is commutative on recognized pairs.                           *)
C8_Commutative ==
    StackOfRecognized => result = stack(args[2], args[1])

C8_Witness ==
    /\ call = "stack"
    /\ args = <<9589, 9590>>
    /\ result = Some(9492)

(* C9: stack is idempotent: stacking a recognized character on itself      *)
(* returns that character.                                                 *)
C9_Idempotent ==
    (StackOfRecognized /\ args[1] = args[2]) => result = Some(args[1])

C9_Witness ==
    /\ call = "stack"
    /\ args = <<9524, 9524>>
    /\ result = Some(9524)

(* C10: for every mask m in 0..15, bits_to_char(m) is the table entry at   *)
(* index m and its glyph draws exactly the directions whose bits are set   *)
(* in m (bit 0 up, 1 right, 2 down, 3 left); masks 0, 15, 11, 13, 5 and 10 *)
(* give ' ', U+253C, U+2534, U+2524, U+2502 and U+2500.                    *)
C10_GlyphOfMask ==
    (call = "bits_to_char" /\ args[1] \in Masks) =>
        /\ result.kind = "Value"
        /\ result.val = LINE_DRAWING_CHARS[args[1] + 1]
        /\ GlyphSegments(result.val) = MaskSegments(args[1])
        /\ args[1] = 0 => result.val = 32
        /\ args[1] = 15 => result.val = 9532
        /\ args[1] = 11 => result.val = 9524
        /\ args[1] = 13 => result.val = 9508
        /\ args[1] = 5 => result.val = 9474
        /\ args[1] = 10 => result.val = 9472

C10_Witness ==
    /\ call = "bits_to_char"
    /\ args = <<11>>
    /\ result = Value(9524)

====
